---- MODULE Spec2Model ----
(***************************************************************************)
(* Model of generate_org_chart.py: the roster loader, the chart renderer    *)
(* (create_org_chart), the HTML wrapper emitter and the __main__ pipeline.  *)
(*                                                                         *)
(* Strings are TLA+ strings.  A field that is absent from a record, None,   *)
(* or the empty string is written "": the code reads every optional field   *)
(* through person.get(...) and tests its truthiness, so the three cases are *)
(* indistinguishable to it.  The two non-ASCII markers of the wrapper's      *)
(* script are written by their code points.                                 *)
(***************************************************************************)
EXTENDS Integers, Sequences, FiniteSets, TLC

VARIABLES
    pc,         \* position of the __main__ script ("api" when functions are called directly)
    rosterFile, \* roster.json in the working directory: [exists, valid, content]
    roster,     \* the roster sequence held in memory
    dot,        \* the Digraph object of the latest create_org_chart call
    charts,     \* graph descriptions returned by the successive create_org_chart calls
    disk,       \* files present in the working directory (roster.json aside)
    html,       \* content of org_chart.html
    svgArg,     \* svg_file argument of the latest create_html_wrapper call
    stages,     \* stages the run has entered, in order
    err         \* the unhandled error that ended the run or the call, "none" if none

vars == <<pc, rosterFile, roster, dot, charts, disk, html, svgArg, stages, err>>

----------------------------------------------------------------------------
(* Bounds *)

MaxLen == 2      \* longest roster drawn as an input
MaxCalls == 2    \* create_org_chart calls on one roster

----------------------------------------------------------------------------
(* String helpers: str.replace, the `in` / includes test, regex [0-9-]+ *)

RECURSIVE Replace(_, _, _)
Replace(s, old, new) ==
    IF Len(s) < Len(old) THEN s
    ELSE IF SubSeq(s, 1, Len(old)) = old
         THEN new \o Replace(SubSeq(s, Len(old) + 1, Len(s)), old, new)
         ELSE SubSeq(s, 1, 1) \o Replace(SubSeq(s, 2, Len(s)), old, new)

Contains(s, sub) ==
    \E i \in 1..(Len(s) - Len(sub) + 1) : SubSeq(s, i, i + Len(sub) - 1) = sub

PhoneChars == {"0", "1", "2", "3", "4", "5", "6", "7", "8", "9", "-"}

HasPhoneMatch(s) == \E i \in 1..Len(s) : SubSeq(s, i, i) \in PhoneChars

----------------------------------------------------------------------------
(* Roster records *)

Person(id, title, name, phone, email, category, reportsTo) ==
    [id |-> id, title |-> title, name |-> name, phone |-> phone,
     email |-> email, category |-> category, reportsTo |-> reportsTo]

sample_roster == <<
    Person("cmd-dro", "DRO Director", "Virginia Mewborn", "917-670-8334",
           "Virginia.Mewborn@redcross.org", "Command", ""),
    Person("cmd-rcco", "RCCO", "Ryan Lock", "850-354-2342",
           "Ryan.Lock3@redcross.org", "Command", "cmd-dro"),
    Person("cmd-cos", "Chief of Staff", "Janice Vannatta", "601-325-3656",
           "Janice.Vannatta4@redcross.org", "Command", "cmd-dro"),
    Person("ops-ad", "AD Operations", "Patricia DAlessandro", "319-404-2096",
           "Patricia.DAlessandro2@redcross.org", "Operations", "cmd-dro"),
    Person("ops-zone1", "Zone Coordinator-Zone 1", "Rick Schou", "980-721-8710",
           "Rick.Schou@redcross.org", "Operations", "ops-ad"),
    Person("ops-zone2", "Zone Coordinator-Zone 2", "Bene Hunter", "941-224-3350",
           "Bene.Hunter2@redcross.org", "Operations", "ops-ad"),
    Person("ops-mass", "HQ Mass Care Chief", "Brenda Bridges", "760-987-5452",
           "brenda.bridges2@redcross.org", "Operations", "ops-ad"),
    Person("log-ad", "AD Logistics", "Marvin Williams", "931-237-3823",
           "Marvin.Williams2@redcross.org", "Logistics Section", "cmd-dro"),
    Person("log-chief", "HQ Logistics Chief", "Margenia Hatfield", "765-602-9133",
           "Margenia.Hatfield@redcross.org", "Logistics Section", "log-ad"),
    Person("log-transport", "HQ Transportation Manager", "Lee Meyer", "719-749-5672",
           "Lee.Meyer@redcross.org", "Logistics Section", "log-chief") >>

(* Input domains.  Edges depend on id, name and reportsTo only; the label   *)
(* and the colour of a node depend on the other fields of its own record    *)
(* only, so the structural fields and the detail fields are varied in turn. *)
Ids == {"", "cmd-dro", "ops-ad"}
Names == {"", "Ryan Lock"}
Phones == {"", "850-354-2342"}
Emails == {"", "Ryan.Lock3@redcross.org", "desk@example.org"}
Categories == {"", "Command", "Operations", "Logistics Section",
               "24 Hour Lines", "Finance", "default"}

StructPersons ==
    {Person(i, "RCCO", n, "", "", "Command", r) : i \in Ids, n \in Names, r \in Ids}
ContactPersons ==
    {Person("cmd-dro", "RCCO", "Ryan Lock", p, e, "Command", "") : p \in Phones, e \in Emails}
CategoryPersons ==
    {Person("cmd-dro", "RCCO", "Ryan Lock", "850-354-2342", "Ryan.Lock3@redcross.org", c, "") :
        c \in Categories}
Persons == StructPersons \cup ContactPersons \cup CategoryPersons

Rosters == UNION {[1..n -> Persons] : n \in 0..MaxLen}

OutputFormats == {"pdf"}    \* the default, and the value __main__ passes
SvgFiles == {"org_chart.svg", "team.svg", "charts/team.svg", "dr220-25.svg"}

----------------------------------------------------------------------------
(* load_roster_from_localstorage *)

NoFile == [exists |-> FALSE, valid |-> FALSE, content |-> <<>>]

LoadRosterSampleFirst(file) ==
    sample_roster \o (IF file.exists THEN file.content ELSE <<>>)

LoadRoster(file) == IF file.exists THEN file.content ELSE sample_roster

----------------------------------------------------------------------------
(* create_org_chart: the graph description *)

colorsNoDefault(category) ==
    CASE category = "Command" -> "#ffcccc"
      [] category = "Operations" -> "#ccddff"
      [] category = "Logistics Section" -> "#ccffcc"
      [] category = "24 Hour Lines" -> "#ffccff"
      [] OTHER -> ""

colors(category) ==
    CASE category = "Command" -> "#ffcccc"
      [] category = "Operations" -> "#ccddff"
      [] category = "Logistics Section" -> "#ccffcc"
      [] category = "24 Hour Lines" -> "#ffccff"
      [] category = "default" -> "#f0f0f0"
      [] OTHER -> "#f0f0f0"

fill_color(person) == colors(person.category)

PhoneText(person) == "Phone: " \o person.phone

email_display(person) == Replace(person.email, "@redcross.org", "")

EmailText(person) == "Email: " \o email_display(person)

PhoneLineAlways(person) ==
    "<FONT POINT-SIZE='9'>" \o PhoneText(person) \o "</FONT><BR/>"

PhoneLine(person) ==
    IF person.phone # ""
    THEN "<FONT POINT-SIZE='9'>" \o PhoneText(person) \o "</FONT><BR/>"
    ELSE ""

EmailLine(person) ==
    IF person.email # ""
    THEN "<FONT POINT-SIZE='9'>" \o EmailText(person) \o "</FONT>"
    ELSE ""

label(person) ==
    "<<B>" \o person.title \o "</B><BR/>"
    \o "<B>" \o person.name \o "</B><BR/>"
    \o PhoneLine(person) \o EmailLine(person) \o ">"

HasName(person) == person.name # ""

NodeOf(person) ==
    [name |-> person.id, label |-> label(person), fillcolor |-> fill_color(person)]

RECURSIVE AddNodesUnfiltered(_)
AddNodesUnfiltered(roster_data) ==
    IF roster_data = <<>> THEN <<>>
    ELSE <<NodeOf(Head(roster_data))>> \o AddNodesUnfiltered(Tail(roster_data))

RECURSIVE AddNodes(_)
AddNodes(roster_data) ==
    IF roster_data = <<>> THEN <<>>
    ELSE (IF HasName(Head(roster_data)) THEN <<NodeOf(Head(roster_data))>> ELSE <<>>)
         \o AddNodes(Tail(roster_data))

(* next((p for p in roster_data if p['id'] == ref), None): index of the     *)
(* first record with that id, 0 for None.                                   *)
Supervisor(roster_data, ref) ==
    IF \E k \in DOMAIN roster_data : roster_data[k].id = ref
    THEN CHOOSE k \in DOMAIN roster_data :
            /\ roster_data[k].id = ref
            /\ \A j \in 1..(k - 1) : roster_data[j].id # ref
    ELSE 0

HasEdgeAnySupervisor(roster_data, person) ==
    /\ HasName(person)
    /\ person.reportsTo # ""
    /\ Supervisor(roster_data, person.reportsTo) # 0

HasEdge(roster_data, person) ==
    /\ HasName(person)
    /\ person.reportsTo # ""
    /\ LET s == Supervisor(roster_data, person.reportsTo)
       IN  s # 0 /\ HasName(roster_data[s])

RECURSIVE AddEdgesFrom(_, _)
AddEdgesFrom(roster_data, i) ==
    IF i > Len(roster_data) THEN <<>>
    ELSE (IF HasEdge(roster_data, roster_data[i])
          THEN << <<roster_data[i].reportsTo, roster_data[i].id>> >>
          ELSE <<>>)
         \o AddEdgesFrom(roster_data, i + 1)

AddEdges(roster_data) == AddEdgesFrom(roster_data, 1)

NoChart == [nodes |-> <<>>, edges |-> <<>>, caption |-> "", format |-> ""]

DigraphShared == [dot EXCEPT !.format = "pdf"]

Digraph == [nodes |-> <<>>, edges |-> <<>>, caption |-> "", format |-> "pdf"]

Caption ==
    "\\n\\nIncident Organization Chart\\nFLOCOM - DR 220-25\\n"
    \o "Operational Period: 18:00 20/10/2024 to 17:59 21/10/2024\\n\\n"

BuildGraph(roster_data, output_format) ==
    LET g == Digraph
    IN  [nodes |-> g.nodes \o AddNodes(roster_data),
         edges |-> g.edges \o AddEdges(roster_data),
         caption |-> Caption,
         format |-> output_format]

Source(g) == [nodes |-> g.nodes, edges |-> g.edges, caption |-> g.caption]

(* dot.render(output_filename, format=..., cleanup=True): the DOT source is *)
(* saved as org_chart, the layout engine writes org_chart.<format>, and the *)
(* source file is removed afterwards; an engine failure raises before the   *)
(* removal.                                                                 *)
RenderedCleansUp(files, format, ok) ==
    IF ok THEN (files \cup {"org_chart." \o format}) \ {"org_chart"}
    ELSE files \ {"org_chart.pdf", "org_chart.svg", "org_chart.html"}

Rendered(files, format, ok) ==
    IF ok THEN (files \cup {"org_chart." \o format}) \ {"org_chart"}
    ELSE files \cup {"org_chart"}

RenderError(ok) == IF ok THEN "none" ELSE "RenderEngineError"

----------------------------------------------------------------------------
(* create_html_wrapper *)

NoHtml == [objectData |-> "", imgSrc |-> "", svgElement |-> FALSE,
           phoneMarker |-> "", emailMarker |-> ""]

(* The parts of the html_content template the claims are about: the two    *)
(* references of the chart container, whether the document itself has an    *)
(* svg element for document.querySelector('svg') to find, and the markers   *)
(* the on-load script looks for (U+1F4DE, U+2709 U+FE0F).                   *)
html_content(svg_file) ==
    [objectData |-> "org_chart.svg", imgSrc |-> "org_chart.svg", svgElement |-> FALSE,
     phoneMarker |-> "U+1F4DE", emailMarker |-> "U+2709 U+FE0F"]

(* window.onload: the handlers the script attaches to a text element *)
AttachesTel(doc, content) ==
    /\ doc.svgElement
    /\ content # ""
    /\ Contains(content, doc.phoneMarker)
    /\ HasPhoneMatch(content)

AttachesMailto(doc, content) ==
    /\ doc.svgElement
    /\ content # ""
    /\ Contains(content, doc.emailMarker)

----------------------------------------------------------------------------
(* __main__: no exception is caught, a failing stage ends the run *)

NextPcSwallowed(next, ok) == next

NextPc(next, ok) == IF ok THEN next ELSE "aborted"

OutputArtifacts == {"org_chart.pdf", "org_chart.svg", "org_chart.html"}

Files ==
    {NoFile, [exists |-> TRUE, valid |-> FALSE, content |-> <<>>]}
    \cup {[exists |-> TRUE, valid |-> TRUE, content |-> r] : r \in Rosters}

Init ==
    /\ pc = "start"
    /\ rosterFile \in Files
    /\ roster = <<>>
    /\ dot = NoChart
    /\ charts = <<>>
    /\ disk = {}
    /\ html = NoHtml
    /\ svgArg = ""
    /\ stages = <<>>
    /\ err = "none"

Load ==
    /\ pc = "start"
    /\ stages' = Append(stages, "load")
    /\ LET ok == rosterFile.exists => rosterFile.valid
       IN  /\ pc' = NextPc("loaded", ok)
           /\ err' = IF ok THEN "none" ELSE "ParseError"
           /\ roster' = IF ok THEN LoadRoster(rosterFile) ELSE roster
    /\ UNCHANGED <<rosterFile, dot, charts, disk, html, svgArg>>

RenderPrimary ==
    /\ pc = "loaded"
    /\ stages' = Append(stages, "render_primary")
    /\ dot' = BuildGraph(roster, "pdf")
    /\ \E ok \in BOOLEAN :
        /\ disk' = Rendered(disk, "pdf", ok)
        /\ err' = RenderError(ok)
        /\ pc' = NextPc("primary", ok)
    /\ UNCHANGED <<rosterFile, roster, charts, html, svgArg>>

RenderVector ==
    /\ pc = "primary"
    /\ stages' = Append(stages, "render_vector")
    /\ dot' = [dot EXCEPT !.format = "svg"]
    /\ \E ok \in BOOLEAN :
        /\ disk' = Rendered(disk, "svg", ok)
        /\ err' = RenderError(ok)
        /\ pc' = NextPc("vector", ok)
        /\ charts' = IF ok THEN Append(charts, Source(dot)) ELSE charts
    /\ UNCHANGED <<rosterFile, roster, html, svgArg>>

WriteWrapper ==
    /\ pc = "vector"
    /\ stages' = Append(stages, "write_wrapper")
    /\ svgArg' = "org_chart.svg"
    /\ \E ok \in BOOLEAN :
        /\ html' = IF ok THEN html_content("org_chart.svg") ELSE html
        /\ disk' = IF ok THEN disk \cup {"org_chart.html"} ELSE disk
        /\ err' = IF ok THEN "none" ELSE "FileWriteError"
        /\ pc' = NextPc("done", ok)
    /\ UNCHANGED <<rosterFile, roster, dot, charts>>

Next == Load \/ RenderPrimary \/ RenderVector \/ WriteWrapper

Spec == Init /\ [][Next]_vars

----------------------------------------------------------------------------
(* create_org_chart called directly and repeatedly on a roster drawn from  *)
(* a bounded set, by a caller that, like __main__, catches no exception.    *)

InitCalls ==
    /\ pc = "api"
    /\ rosterFile = NoFile
    /\ roster \in Rosters
    /\ dot = NoChart
    /\ charts = <<>>
    /\ disk = {}
    /\ html = NoHtml
    /\ svgArg = ""
    /\ stages = <<>>
    /\ err = "none"

CallCreateOrgChart ==
    /\ pc = "api"
    /\ Len(charts) < MaxCalls
    /\ \E output_format \in OutputFormats, ok1 \in BOOLEAN, ok2 \in BOOLEAN :
        LET g == BuildGraph(roster, output_format)
            d1 == Rendered(disk, output_format, ok1)
        IN  IF ~ok1
            THEN /\ dot' = g
                 /\ disk' = d1
                 /\ err' = RenderError(ok1)
                 /\ pc' = NextPc("api", ok1)
                 /\ charts' = charts
            ELSE /\ dot' = [g EXCEPT !.format = "svg"]
                 /\ disk' = Rendered(d1, "svg", ok2)
                 /\ err' = RenderError(ok2)
                 /\ pc' = NextPc("api", ok2)
                 /\ charts' = IF ok2 THEN Append(charts, Source(g)) ELSE charts
    /\ UNCHANGED <<rosterFile, roster, html, svgArg, stages>>

NextCalls == CallCreateOrgChart

SpecCalls == InitCalls /\ [][NextCalls]_vars

----------------------------------------------------------------------------
(* create_html_wrapper called directly, in a working directory that holds  *)
(* any of the files earlier runs can have left.                            *)

LeftoverFiles == {"org_chart", "org_chart.pdf", "org_chart.svg", "org_chart.html"}

InitWrapper ==
    /\ pc = "api"
    /\ rosterFile = NoFile
    /\ roster = <<>>
    /\ dot = NoChart
    /\ charts = <<>>
    /\ disk \in SUBSET LeftoverFiles
    /\ html = IF "org_chart.html" \in disk THEN html_content("org_chart.svg") ELSE NoHtml
    /\ svgArg = ""
    /\ stages = <<>>
    /\ err = "none"

CallCreateHtmlWrapper ==
    /\ pc = "api"
    /\ \E svg_file \in SvgFiles, ok \in BOOLEAN :
        /\ svgArg' = svg_file
        /\ html' = IF ok THEN html_content(svg_file) ELSE html
        /\ disk' = IF ok THEN disk \cup {"org_chart.html"} ELSE disk
        /\ err' = IF ok THEN "none" ELSE "FileWriteError"
        /\ pc' = NextPc("api", ok)
    /\ UNCHANGED <<rosterFile, roster, dot, charts, stages>>

NextWrapper == CallCreateHtmlWrapper

SpecWrapper == InitWrapper /\ [][NextWrapper]_vars

----------------------------------------------------------------------------
(* Properties *)

Built == dot # NoChart

Named(roster_data) == SelectSeq(roster_data, HasName)

UniqueIds(roster_data) ==
    \A i, j \in DOMAIN roster_data : roster_data[i].id = roster_data[j].id => i = j

(* C1: the node registrations of the graph are, in order, the ids of the   *)
(* records with a non-empty name: one registration per named record, none  *)
(* for an unnamed one, and as many registrations as named records.         *)
C1_OneNodePerNamedRecord ==
    Built =>
        /\ Len(dot.nodes) = Cardinality({i \in DOMAIN roster : roster[i].name # ""})
        /\ Len(dot.nodes) = Len(Named(roster))
        /\ \A k \in DOMAIN dot.nodes : dot.nodes[k].name = Named(roster)[k].id

C1_Witness ==
    /\ Built
    /\ charts # <<>>
    /\ \E i, j \in DOMAIN roster : roster[i].name # "" /\ roster[j].name = ""

EdgesInto(g, id) == {k \in DOMAIN g.edges : g.edges[k][2] = id}

RegistersEdge(g, P, id) ==
    \E k \in DOMAIN g.edges : g.edges[k] = <<P, id>> /\ EdgesInto(g, id) = {k}

SupervisorNamed(roster_data, P) ==
    \E j \in DOMAIN roster_data : roster_data[j].id = P /\ roster_data[j].name # ""

(* C2 as stated: with unique ids, a record R with reportsTo = P gets the   *)
(* edge P -> R iff R is named and a named record with id P exists, and a    *)
(* record that references itself gets no edge.                             *)
C2_AsStated ==
    (Built /\ UniqueIds(roster)) =>
        \A i \in DOMAIN roster :
            LET R == roster[i]
                P == R.reportsTo
            IN  P # "" =>
                    IF R.name # "" /\ SupervisorNamed(roster, P) /\ P # R.id
                    THEN RegistersEdge(dot, P, R.id)
                    ELSE EdgesInto(dot, R.id) = {}

(* C2 amended: with unique ids, a record R with a non-empty reportsTo = P  *)
(* gets exactly the edge P -> R iff R is named and a named record with id P *)
(* exists, a named record that references itself included (it gets the     *)
(* self-loop R -> R); in every other case no edge into R is registered.    *)
C2_EdgeIffBothNamed ==
    (Built /\ UniqueIds(roster)) =>
        \A i \in DOMAIN roster :
            LET R == roster[i]
                P == R.reportsTo
            IN  IF P # "" /\ R.name # "" /\ SupervisorNamed(roster, P)
                THEN RegistersEdge(dot, P, R.id)
                ELSE EdgesInto(dot, R.id) = {}

C2_Witness ==
    /\ Built
    /\ UniqueIds(roster)
    /\ \E i, j \in DOMAIN roster :
        /\ roster[i].name # "" /\ roster[i].reportsTo = roster[i].id
        /\ RegistersEdge(dot, roster[i].id, roster[i].id)
        /\ roster[j].name # "" /\ roster[j].reportsTo # ""
        /\ \A k \in DOMAIN roster : roster[k].id # roster[j].reportsTo
        /\ EdgesInto(dot, roster[j].id) = {}

(* C3: once loading has succeeded the roster is the built-in sequence of   *)
(* 10 records (first one cmd-dro, DRO Director) when roster.json is absent, *)
(* and exactly the content of roster.json when it exists.                  *)
C3_LoadedRoster ==
    (pc # "start" /\ err # "ParseError") =>
        /\ ~rosterFile.exists =>
            /\ roster = sample_roster
            /\ Len(roster) = 10
            /\ roster[1].id = "cmd-dro"
            /\ roster[1].title = "DRO Director"
        /\ rosterFile.exists => roster = rosterFile.content

C3_Witness ==
    /\ pc = "loaded"
    /\ rosterFile.exists
    /\ Len(roster) = MaxLen

NamedColors == {"Command", "Operations", "Logistics Section", "24 Hour Lines"}

(* C4: the fill colour of every node is the colour of its record's         *)
(* category for the four named categories and #f0f0f0 for any other value, *)
(* an absent category included.                                            *)
C4_FillColor ==
    Built =>
        \A k \in DOMAIN dot.nodes :
            LET c == Named(roster)[k].category
                f == dot.nodes[k].fillcolor
            IN  /\ c = "Command" => f = "#ffcccc"
                /\ c = "Operations" => f = "#ccddff"
                /\ c = "Logistics Section" => f = "#ccffcc"
                /\ c = "24 Hour Lines" => f = "#ffccff"
                /\ c \notin NamedColors => f = "#f0f0f0"

C4_Witness ==
    /\ Built
    /\ \E i, j \in DOMAIN dot.nodes :
        /\ Named(roster)[i].category = "Finance"
        /\ Named(roster)[j].category = ""

StageOrder == <<"load", "render_primary", "render_vector", "write_wrapper">>

(* C6: the stages run once each in the order load, primary render, vector  *)
(* render, wrapper; a run that reaches the end has written the three        *)
(* artifacts; a failed load or render ends the run with no later stage      *)
(* entered, nothing rendered after a load failure and no wrapper written    *)
(* after a load or render failure.                                         *)
C6_StagesInOrder ==
    /\ Len(stages) <= Len(StageOrder)
    /\ stages = SubSeq(StageOrder, 1, Len(stages))
    /\ pc = "done" =>
        /\ stages = StageOrder
        /\ err = "none"
        /\ {"org_chart.pdf", "org_chart.svg", "org_chart.html"} \subseteq disk
    /\ err # "none" => pc = "aborted"
    /\ pc = "aborted" => ~ENABLED Next
    /\ err = "ParseError" => stages = <<"load">> /\ disk = {} /\ dot = NoChart
    /\ err = "RenderEngineError" =>
        /\ Len(stages) \in {2, 3}
        /\ "org_chart.html" \notin disk
        /\ html = NoHtml

C6_Witness ==
    /\ pc = "aborted"
    /\ err = "RenderEngineError"
    /\ stages = <<"load", "render_primary">>

(* C7 as stated: the document written by create_html_wrapper references    *)
(* the file named by its svg_file argument.                                *)
C7_EmbedsArgument ==
    (pc = "api" /\ svgArg # "") =>
        html.objectData = svgArg /\ html.imgSrc = svgArg

(* C8 as stated: for every named record of a finished run, the phone text  *)
(* and the email text of its node get a click handler from the wrapper's    *)
(* on-load script.                                                         *)
C8_ContactsClickable ==
    pc = "done" =>
        \A k \in DOMAIN dot.nodes :
            LET person == Named(roster)[k]
            IN  /\ person.phone # "" =>
                    /\ Contains(dot.nodes[k].label, PhoneText(person))
                    /\ AttachesTel(html, PhoneText(person))
                /\ person.email # "" =>
                    /\ Contains(dot.nodes[k].label, EmailText(person))
                    /\ AttachesMailto(html, EmailText(person))

(* C9: no step removes an output artifact from the disk, a failing step    *)
(* included, and no stage is entered twice.                                *)
C9_ArtifactsKept ==
    [][ /\ (disk \cap OutputArtifacts) \subseteq disk'
        /\ stages' # stages =>
            \A k \in DOMAIN stages : stages[k] # stages'[Len(stages')] ]_vars

C9_Witness ==
    /\ pc = "aborted"
    /\ stages = <<"load", "render_primary", "render_vector">>
    /\ "org_chart.pdf" \in disk
    /\ "org_chart.svg" \notin disk

(* C10: the label of every node contains the record's title and name, a    *)
(* phone line iff the phone is non-empty and an email line iff the email is *)
(* non-empty.                                                              *)
C10_LabelLines ==
    Built =>
        \A k \in DOMAIN dot.nodes :
            LET person == Named(roster)[k]
                l == dot.nodes[k].label
            IN  /\ Contains(l, "<B>" \o person.title \o "</B>")
                /\ Contains(l, "<B>" \o person.name \o "</B>")
                /\ Contains(l, "Phone: ") <=> person.phone # ""
                /\ person.phone # "" => Contains(l, "Phone: " \o person.phone)
                /\ Contains(l, "Email: ") <=> person.email # ""

C10_Witness ==
    /\ Built
    /\ \E i, j \in DOMAIN dot.nodes :
        /\ Named(roster)[i].phone # "" /\ Named(roster)[i].email = ""
        /\ Named(roster)[j].phone = "" /\ Named(roster)[j].email # ""

====
